---- MODULE Spec2Model ----
(***************************************************************************)
(* Model of server.py: a Flask application that resolves a YouTube video   *)
(* identifier from a submitted URL, asks the transcript library for the    *)
(* transcript and answers in JSON, behind flask-limiter rate limits, an    *)
(* after_request hook that sets security headers and a catch-all error     *)
(* handler.                                                                *)
(*                                                                         *)
(* Strings that the code parses (URLs, identifiers) are sequences of       *)
(* one-character strings, so that urlparse, parse_qs and str.split are     *)
(* modelled by what they do to the characters.                             *)
(***************************************************************************)
EXTENDS Integers, Sequences, FiniteSets, TLC

VARIABLES hits, pending, resp, load

vars == <<hits, pending, resp, load>>

(***************************************************************************)
(* Bounds of the model.                                                    *)
(***************************************************************************)
\* longest identifier placed in a generated URL
MaxIdLen == 3
\* requests that may be blocked in the transcript library at the same time
MaxInFlight == 1
\* hits a client still sends to a window after the window's budget is used up
MaxOver == 1
\* distinct values time.time() takes in the model
MaxTime == 1

(***************************************************************************)
(* Character sequences.                                                    *)
(***************************************************************************)
\* str.find(c, from): the first index >= from holding c, 0 when there is none
Find(s, c, from) ==
    LET hit == {i \in from..Len(s) : s[i] = c}
    IN  IF hit = {} THEN 0 ELSE CHOOSE i \in hit : \A j \in hit : i <= j

\* str.rfind(c): the last index holding c, 0 when there is none
RFind(s, c) ==
    LET hit == {i \in 1..Len(s) : s[i] = c}
    IN  IF hit = {} THEN 0 ELSE CHOOSE i \in hit : \A j \in hit : i >= j

\* s[i:] of Python, with i counted from 1
From(s, i) == SubSeq(s, i, Len(s))

\* the Python test `sub in s`
Contains(s, sub) ==
    \E i \in 1..(Len(s) - Len(sub) + 1) : SubSeq(s, i, i + Len(sub) - 1) = sub

\* str.split(sep): the pieces between the occurrences of sep
RECURSIVE Split(_, _)
Split(s, sep) ==
    LET i == Find(s, sep, 1)
    IN  IF i = 0 THEN <<s>>
        ELSE <<SubSeq(s, 1, i - 1)>> \o Split(From(s, i + 1), sep)

\* str.replace(a, b) for single characters
Replace(s, a, b) == [i \in 1..Len(s) |-> IF s[i] = a THEN b ELSE s[i]]

Letters == {"a", "b", "c", "e", "h", "l", "m", "n", "o", "p", "r", "s", "t",
            "u", "v", "w", "x", "y"}
Digits == {"1"}
\* urllib.parse.scheme_chars, restricted to the characters of the model
scheme_chars == Letters \cup Digits \cup {"+", "-", "."}
\* the hexadecimal digits that follow a "%" in the inputs of the model
HexDigits == {"1"}
HexVal(c) == 1
\* chr(n) for the byte two digits of HexDigits can spell: 0x11, the control
\* character DC1
Chr(n) == "<DC1>"

\* urllib.parse.unquote: "%XY" becomes the character with that code, a "%"
\* not followed by two hexadecimal digits stays
RECURSIVE unquote(_)
unquote(s) ==
    IF s = <<>> THEN <<>>
    ELSE IF s[1] = "%" /\ Len(s) >= 3 /\ s[2] \in HexDigits /\ s[3] \in HexDigits
         THEN <<Chr(16 * HexVal(s[2]) + HexVal(s[3]))>> \o unquote(From(s, 4))
         ELSE <<s[1]>> \o unquote(From(s, 2))

(***************************************************************************)
(* urllib.parse.urlparse, as server.py calls it.                           *)
(***************************************************************************)
\* the index where the netloc of "//netloc..." ends: the first of / ? #
\* after the two slashes, or the end of the string
NetlocEnd(u) ==
    LET stops == {i \in 3..Len(u) : u[i] \in {"/", "?", "#"}}
    IN  IF stops = {} THEN Len(u) + 1
        ELSE CHOOSE i \in stops : \A j \in stops : i <= j

\* _splitparams: ";params" is cut from the last path segment
splitparams(u) ==
    LET i == IF Find(u, "/", 1) > 0 THEN Find(u, ";", RFind(u, "/"))
             ELSE Find(u, ";", 1)
    IN  IF i = 0 THEN u ELSE SubSeq(u, 1, i - 1)

\* urlsplit, step 1: "scheme:" is cut off when the text before the first
\* colon starts with a letter and holds scheme characters only
strip_scheme(url, colon) ==
    IF /\ colon > 1
       /\ url[1] \in Letters
       /\ \A i \in 1..(colon - 1) : url[i] \in scheme_chars
    THEN From(url, colon + 1)
    ELSE url

\* urlsplit, step 2: "//netloc" is cut off
netloc_of(u) ==
    IF Len(u) >= 2 /\ u[1] = "/" /\ u[2] = "/"
    THEN SubSeq(u, 3, NetlocEnd(u) - 1)
    ELSE <<>>

after_netloc(u) ==
    IF Len(u) >= 2 /\ u[1] = "/" /\ u[2] = "/" THEN From(u, NetlocEnd(u))
    ELSE u

\* the netloc holds one bracket without the other: urlsplit raises
\* ValueError("Invalid IPv6 URL")
unbalanced(netloc) ==
    \/ (Find(netloc, "[", 1) > 0 /\ Find(netloc, "]", 1) = 0)
    \/ (Find(netloc, "]", 1) > 0 /\ Find(netloc, "[", 1) = 0)

\* s.split(c, 1)[0] and [1], the second empty when c is not in s
before(s, at) == IF at > 0 THEN SubSeq(s, 1, at - 1) ELSE s
after(s, at) == IF at > 0 THEN From(s, at + 1) ELSE <<>>

\* urlsplit, steps 3 and 4, and urlparse's split of the parameters: the
\* fragment is dropped, the query cut off, ";params" cut from the path
\* (every scheme of the model, "" and "https", is in uses_params)
split_query(netloc, u) ==
    [error |-> "", netloc |-> netloc,
     path |-> splitparams(before(u, Find(u, "?", 1))),
     query |-> after(u, Find(u, "?", 1))]

split_netloc(netloc, u) ==
    IF unbalanced(netloc)
    THEN [error |-> "Invalid IPv6 URL", netloc |-> <<>>, path |-> <<>>,
          query |-> <<>>]
    ELSE split_query(netloc, before(u, Find(u, "#", 1)))

split_url(u) == split_netloc(netloc_of(u), after_netloc(u))

\* urlparse(url): [error, netloc, path, query]; error is the message of the
\* ValueError the parser raises
urlparse(url) == split_url(strip_scheme(url, Find(url, ":", 1)))

\* urllib.parse.parse_qsl: the (name, value) pairs of a query string; a pair
\* without "=" or with an empty value is dropped (keep_blank_values=False)
RECURSIVE PairsOf(_)
PairsOf(fields) ==
    IF fields = <<>> THEN <<>>
    ELSE LET f == fields[1]
             eq == Find(f, "=", 1)
             rest == PairsOf(Tail(fields))
         IN  IF f = <<>> \/ eq = 0 \/ eq = Len(f) THEN rest
             ELSE <<[name |-> unquote(Replace(SubSeq(f, 1, eq - 1), "+", " ")),
                     value |-> unquote(Replace(From(f, eq + 1), "+", " "))]>>
                  \o rest

parse_qsl(query) == PairsOf(Split(query, "&"))

\* the value of the first pair of the name, the empty sequence when there is
\* none
value_of(ps, name) ==
    IF \A i \in 1..Len(ps) : ps[i].name # name THEN <<>>
    ELSE ps[CHOOSE i \in 1..Len(ps) :
              /\ ps[i].name = name
              /\ \A j \in 1..(i - 1) : ps[j].name # name].value

\* parse_qs(query).get(name, [None])[0], the empty sequence standing for None
first_value(query, name) == value_of(parse_qsl(query), name)

\* path.split('/')[-1]
last_segment(path) == From(path, RFind(path, "/") + 1)

YoutubeCom == <<"y", "o", "u", "t", "u", "b", "e", ".", "c", "o", "m">>

\* the ValueError a URL is refused with
Refused(message) ==
    [ok |-> FALSE, kind |-> "ValueError", message |-> message,
     video_id |-> <<>>]

\* `if not video_id: raise ValueError("Invalid YouTube URL")`
checked(video_id) ==
    IF video_id = <<>> THEN Refused("Invalid YouTube URL")
    ELSE [ok |-> TRUE, kind |-> "", message |-> "", video_id |-> video_id]

\* a mutant of video_id_of: the identifier is the first path segment
video_id_of_first_segment(p) ==
    IF p.error # "" THEN Refused(p.error)
    ELSE checked(IF Contains(p.netloc, YoutubeCom)
                 THEN first_value(p.query, <<"v">>)
                 ELSE Split(p.path, "/")[1])

\* the identifier of a parsed URL: the query parameter v of a youtube.com
\* host, the last path segment of any other
video_id_of(p) ==
    IF p.error # "" THEN Refused(p.error)
    ELSE checked(IF Contains(p.netloc, YoutubeCom)
                 THEN first_value(p.query, <<"v">>)
                 ELSE last_segment(p.path))

\* the resolver of get_video_transcript: the identifier of a URL, or the
\* exception raised before the transcript library is called
get_video_id(url) == video_id_of(urlparse(url))

(***************************************************************************)
(* The rate limiter (flask-limiter, fixed windows kept in process memory). *)
(***************************************************************************)
Clients == {"c1", "c2"}

Routes == {"/", "/health", "/api/transcript", "/favicon.ico"}

DefaultDayLimit == 200
DefaultHourLimit == 50
HomeLimit == 10
TranscriptLimit == 100

\* default_limits of the Limiter, in the order the windows are tested
\* (shortest window first)
default_limits ==
    <<[amount |-> DefaultHourLimit, per |-> "hour"],
      [amount |-> DefaultDayLimit, per |-> "day"]>>

\* the limit a @limiter.limit decorator puts on a view
decorated_limits(route) ==
    CASE route = "/" -> <<[amount |-> HomeLimit, per |-> "minute"]>>
      [] route = "/api/transcript" ->
             <<[amount |-> TranscriptLimit, per |-> "hour"]>>
      [] OTHER -> <<>>

\* a mutant of active_limits: the defaults stay active on decorated views
active_limits_with_defaults(route) ==
    decorated_limits(route) \o default_limits

\* the limits tested for a request: a decorated view's own limit replaces
\* the defaults (override_defaults), any other view gets the defaults
active_limits(route) ==
    IF decorated_limits(route) # <<>> THEN decorated_limits(route)
    ELSE default_limits

\* every limit of the application
Items == {default_limits[i] : i \in 1..Len(default_limits)}
         \cup {decorated_limits(r)[1] : r \in {"/", "/api/transcript"}}

\* the bucket table is keyed by (remote address, endpoint, limit)
Keys == Clients \X Routes \X Items

\* str() of the RateLimitExceeded raised for a limit
limit_text(item) ==
    CASE item.per = "minute" -> "429 Too Many Requests: 10 per 1 minute"
      [] item.per = "hour" /\ item.amount = TranscriptLimit ->
             "429 Too Many Requests: 100 per 1 hour"
      [] item.per = "hour" -> "429 Too Many Requests: 50 per 1 hour"
      [] OTHER -> "429 Too Many Requests: 200 per 1 day"

\* the limiter's test of one request: each active window is incremented and
\* compared in turn, the first one over its amount rejects the request
RECURSIVE evaluate(_, _, _, _)
evaluate(h, client, route, items) ==
    IF items = <<>> THEN [hits |-> h, admitted |-> TRUE, message |-> ""]
    ELSE LET k == <<client, route, items[1]>>
             h1 == [h EXCEPT ![k] = @ + 1]
         IN  IF h1[k] > items[1].amount
             THEN [hits |-> h1, admitted |-> FALSE,
                   message |-> limit_text(items[1])]
             ELSE evaluate(h1, client, route, Tail(items))

\* the requests of a client counted in a route's running window of one
\* length (a route keeps at most one running window of each length)
counted(h, client, route, per) ==
    LET ns == {h[<<client, route, it>>] : it \in {i \in Items : i.per = per}}
    IN  CHOOSE n \in ns : \A m \in ns : n >= m

\* the view's own limit and the default limits that one more request of the
\* client to the route goes beyond, read before the request is counted
windows_exceeded(h, client, route) ==
    LET all == decorated_limits(route) \o default_limits
    IN  {all[i] : i \in {j \in 1..Len(all) :
                    counted(h, client, route, all[j].per) + 1 > all[j].amount}}

(***************************************************************************)
(* Responses.                                                              *)
(***************************************************************************)
HeaderNames == {"Content-Type", "X-Content-Type-Options", "X-Frame-Options",
                "X-XSS-Protection", "Strict-Transport-Security"}

\* a response as a view or an error handler returns it
make_response(status, body, ctype) ==
    [status |-> status, body |-> body,
     headers |-> [n \in HeaderNames |->
                    IF n = "Content-Type" THEN ctype ELSE ""]]

jsonify(body, status) == make_response(status, body, "application/json")

\* a mutant of add_security_headers: error responses are passed through
add_security_headers_on_success(response) ==
    IF response.status >= 400 THEN response
    ELSE [response EXCEPT
            !.headers["X-Content-Type-Options"] = "nosniff",
            !.headers["X-Frame-Options"] = "DENY",
            !.headers["X-XSS-Protection"] = "1; mode=block",
            !.headers["Strict-Transport-Security"] =
                "max-age=31536000; includeSubDomains"]

\* the after_request hook
add_security_headers(response) ==
    [response EXCEPT
       !.headers["X-Content-Type-Options"] = "nosniff",
       !.headers["X-Frame-Options"] = "DENY",
       !.headers["X-XSS-Protection"] = "1; mode=block",
       !.headers["Strict-Transport-Security"] =
           "max-age=31536000; includeSubDomains"]

\* the errorhandler(Exception): it also receives the HTTP exceptions that
\* the limiter and the router raise
handle_error(message) ==
    jsonify([error |-> message, status |-> "error"], 500)

\* os.environ.get('ENVIRONMENT', 'development') with the variable unset
Environment == "development"
Times == 1..MaxTime

home ==
    jsonify([status |-> "Server is running",
             endpoints |-> [transcript |-> "/api/transcript",
                            health |-> "/health"],
             version |-> "1.0.0"], 200)

\* a mutant of health: the view reports the service as unavailable
health_unavailable(now) ==
    jsonify([status |-> "unavailable", timestamp |-> now,
             environment |-> Environment,
             service |-> "youtube-transcript-api"], 503)

health(now) ==
    jsonify([status |-> "healthy", timestamp |-> now,
             environment |-> Environment,
             service |-> "youtube-transcript-api"], 200)

favicon == make_response(204, [text |-> ""], "text/html; charset=utf-8")

(***************************************************************************)
(* POST /api/transcript.                                                   *)
(***************************************************************************)
NoBody == [ctype |-> "", raw |-> "absent", url |-> <<>>]

\* the request bodies of the model: no body at all, an empty body sent as
\* JSON, and the JSON texts null, {}, {"lang": "en"} and {"url": <url>}
Bodies(urls) ==
    {NoBody}
    \cup {[ctype |-> "application/json", raw |-> r, url |-> <<>>] :
            r \in {"empty", "null", "{}", "{lang}"}}
    \cup {[ctype |-> "application/json", raw |-> "{url}", url |-> u] :
            u \in urls}

\* request.get_json(): the parsed body, or the HTTP exception it raises.
\* Without a JSON content type an old Flask returns None and a newer one
\* raises; an empty JSON body fails to decode.
get_json(body, old_flask) ==
    IF body.ctype # "application/json"
    THEN IF old_flask
         THEN [raised |-> "", isNone |-> TRUE, keys |-> {}, url |-> <<>>]
         ELSE [raised |-> "415 Unsupported Media Type", isNone |-> TRUE,
               keys |-> {}, url |-> <<>>]
    ELSE CASE body.raw = "empty" ->
                [raised |-> "400 Bad Request", isNone |-> TRUE, keys |-> {},
                 url |-> <<>>]
           [] body.raw = "null" ->
                [raised |-> "", isNone |-> TRUE, keys |-> {}, url |-> <<>>]
           [] body.raw = "{}" ->
                [raised |-> "", isNone |-> FALSE, keys |-> {}, url |-> <<>>]
           [] body.raw = "{lang}" ->
                [raised |-> "", isNone |-> FALSE, keys |-> {"lang"},
                 url |-> <<>>]
           [] OTHER ->
                [raised |-> "", isNone |-> FALSE, keys |-> {"url"},
                 url |-> body.url]

\* what a view hands back: a response, or a call blocked in the transcript
\* library for video_id; trace lists the steps taken
Returned(response, trace) ==
    [blocked |-> FALSE, response |-> response, trace |-> trace,
     video_id |-> <<>>]

Blocked(video_id, trace) ==
    [blocked |-> TRUE, response |-> make_response(0, [text |-> ""], ""),
     trace |-> trace, video_id |-> video_id]

\* get_transcript from the resolver's result on
resolved(r) ==
    IF ~r.ok
    THEN Returned(jsonify([error |-> r.message], 500),
                  <<"get_json", "urlparse", "except">>)
    ELSE Blocked(r.video_id, <<"get_json", "urlparse", "fetch">>)

\* get_transcript from the parsed body on
validated(data) ==
    IF data.raised # ""
    THEN Returned(jsonify([error |-> data.raised], 500),
                  <<"get_json", "except">>)
    ELSE IF data.isNone \/ data.keys = {} \/ "url" \notin data.keys
    THEN Returned(jsonify([error |-> "URL is required"], 400), <<"get_json">>)
    ELSE resolved(get_video_id(data.url))

\* get_transcript up to the call of the transcript library
get_transcript(body, old_flask) == validated(get_json(body, old_flask))

Segment(text, start) == [text |-> text, start |-> start, duration |-> 1]

\* what the transcript library may return for an identifier
Transcripts ==
    {<<Segment("hello", 0), Segment("world", 1)>>,
     <<Segment("world", 1), Segment("hello", 0)>>}

FetchFailures == {"TranscriptsDisabled", "VideoUnavailable"}

\* no call of the transcript library was made
NoOutcome == [ok |-> FALSE, transcript |-> <<>>, message |-> ""]

Outcomes ==
    {[ok |-> TRUE, transcript |-> t, message |-> ""] : t \in Transcripts}
    \cup {[ok |-> FALSE, transcript |-> <<>>, message |-> m] :
            m \in FetchFailures}

\* a mutant of transcript_response: a failure of the library is answered
\* with an empty transcript
transcript_response_swallow(outcome) ==
    jsonify([transcript |-> outcome.transcript], 200)

\* get_transcript after the call of the transcript library returned or raised
transcript_response(outcome) ==
    IF outcome.ok THEN jsonify([transcript |-> outcome.transcript], 200)
    ELSE jsonify([error |-> outcome.message], 500)

(***************************************************************************)
(* Dispatch of one request.                                                *)
(***************************************************************************)
\* a mutant of full_dispatch: the view runs before the limiter decides
full_dispatch_view_first(ev, view) ==
    IF ev.admitted THEN [view EXCEPT !.trace = @ \o <<"limiter">>]
    ELSE Returned(handle_error(ev.message),
                  view.trace \o <<"limiter", "handle_error">>)

\* the limiter decides first; a rejected request goes to the error handler
\* and the view is not called
full_dispatch(ev, view) ==
    IF ev.admitted THEN [view EXCEPT !.trace = <<"limiter">> \o @]
    ELSE Returned(handle_error(ev.message), <<"limiter", "handle_error">>)

ViewSteps == {"home", "health", "favicon", "get_json", "urlparse", "fetch",
              "except"}

FetchCalls(trace) == Cardinality({i \in 1..Len(trace) : trace[i] = "fetch"})

\* the response as it leaves the server, with what is known of its request
sent(client, route, request, admitted, exceeded, video_id, outcome, trace, out) ==
    [client |-> client, route |-> route, request |-> request,
     admitted |-> admitted, exceeded |-> exceeded, video_id |-> video_id,
     outcome |-> outcome, trace |-> trace \o <<"after_request">>,
     status |-> out.status, body |-> out.body, headers |-> out.headers]

emit(client, route, request, admitted, exceeded, video_id, outcome, trace, response) ==
    sent(client, route, request, admitted, exceeded, video_id, outcome, trace,
         add_security_headers(response))

NoResponse ==
    [client |-> "", route |-> "", request |-> NoBody, admitted |-> FALSE,
     exceeded |-> {}, video_id |-> <<>>, outcome |-> NoOutcome,
     trace |-> <<>>, status |-> 0,
     body |-> [text |-> ""], headers |-> [n \in HeaderNames |-> ""]]

(***************************************************************************)
(* The URLs clients submit.                                                *)
(***************************************************************************)
WatchPrefix ==
    <<"h", "t", "t", "p", "s", ":", "/", "/", "w", "w", "w", ".", "y",
    "o", "u", "t", "u", "b", "e", ".", "c", "o", "m", "/", "w", "a", "t",
    "c", "h", "?", "v", "=">>

ShortPrefix ==
    <<"h", "t", "t", "p", "s", ":", "/", "/", "y", "o", "u", "t", "u",
    ".", "b", "e", "/">>

MoreParams ==
    <<"&", "t", "=", "1">>

NotAUrl ==
    <<"n", "o", "t", " ", "a", " ", "u", "r", "l">>

OpenBracket ==
    <<"h", "t", "t", "p", "s", ":", "/", "/", "[", "y", "o", "u", "t",
    "u", ".", "b", "e", "/", "x">>

WatchNoQuery ==
    <<"h", "t", "t", "p", "s", ":", "/", "/", "w", "w", "w", ".", "y",
    "o", "u", "t", "u", "b", "e", ".", "c", "o", "m", "/", "w", "a", "t",
    "c", "h">>

\* the characters identifiers are made of: a letter and a digit, as in
\* YouTube's identifiers, and the characters a URL gives a meaning to
PlainChars == {"x", "1", "_", "-"}
IdChars == PlainChars \cup {"+", "%", "&", "#", "/", "?", ";"}

RECURSIVE SeqsUpTo(_, _)
SeqsUpTo(S, n) ==
    IF n = 0 THEN {<<>>}
    ELSE LET shorter == SeqsUpTo(S, n - 1)
         IN  shorter \cup {Append(t, c) : t \in shorter, c \in S}

Ids == SeqsUpTo(IdChars, MaxIdLen) \ {<<>>}

WatchUrl(id) == WatchPrefix \o id
WatchUrlMore(id) == WatchPrefix \o id \o MoreParams
ShortUrl(id) == ShortPrefix \o id

\* the URLs from which no identifier can be read, by the reading of the
\* interface description
NoIdUrls ==
    {WatchUrl(<<>>), WatchNoQuery, ShortUrl(<<>>), NotAUrl, OpenBracket}

AllUrls ==
    {WatchUrl(id) : id \in Ids} \cup {WatchUrlMore(id) : id \in Ids}
    \cup {ShortUrl(id) : id \in Ids} \cup NoIdUrls

SampleId == <<"x", "1">>

SampleUrls == {WatchUrlMore(SampleId), WatchUrl(<<>>), NotAUrl}

(***************************************************************************)
(* State and actions.                                                      *)
(***************************************************************************)
\* the traffic of a run: the first client sends to one route without bound,
\* and the second client may send one request, to one of the routes `other`
Workloads ==
    {[heavy |-> <<"c1", "/health">>, other |-> {}],
     [heavy |-> <<"c1", "/">>, other |-> Routes],
     [heavy |-> <<"c1", "/api/transcript">>, other |-> {"/api/transcript"}]}

Init ==
    /\ hits = [k \in Keys |-> 0]
    /\ pending = <<>>
    /\ resp = NoResponse
    /\ load \in Workloads

\* a client sends a request to a route: within the load of the model, and
\* not hammering a window that is already MaxOver beyond its budget
CanSend(client, route) ==
    /\ load.heavy = <<client, route>> \/ (client = "c2" /\ route \in load.other)
    /\ \A i \in 1..Len(active_limits(route)) :
         hits[<<client, route, active_limits(route)[i]>>]
            < active_limits(route)[i].amount + MaxOver

Spend(client, route) ==
    IF load.heavy = <<client, route>> THEN load
    ELSE [load EXCEPT !.other = {}]

\* a request to a view that returns at once
Answer(client, route, ev, d) ==
    /\ CanSend(client, route)
    /\ hits' = ev.hits
    /\ resp' = emit(client, route, NoBody, ev.admitted,
                    windows_exceeded(hits, client, route), <<>>, NoOutcome,
                    d.trace, d.response)
    /\ load' = Spend(client, route)
    /\ UNCHANGED pending

Dispatch(client, route, ev, view) ==
    Answer(client, route, ev, full_dispatch(ev, view))

Serve(client, route, view) ==
    Dispatch(client, route,
             evaluate(hits, client, route, active_limits(route)), view)

Home(client) == Serve(client, "/", Returned(home, <<"home">>))

Health(client, now) ==
    Serve(client, "/health", Returned(health(now), <<"health">>))

Favicon(client) ==
    Serve(client, "/favicon.ico", Returned(favicon, <<"favicon">>))

\* POST /api/transcript: answered at once, or left blocked in the
\* transcript library
AnswerOrBlock(client, body, ev, exceeded, d) ==
    /\ CanSend(client, "/api/transcript")
    /\ Len(pending) < MaxInFlight
    /\ hits' = ev.hits
    /\ load' = Spend(client, "/api/transcript")
    /\ IF d.blocked
       THEN /\ pending' = Append(pending,
                  [client |-> client, request |-> body,
                   admitted |-> ev.admitted, exceeded |-> exceeded,
                   video_id |-> d.video_id, trace |-> d.trace])
            /\ resp' = resp
       ELSE /\ resp' = emit(client, "/api/transcript", body, ev.admitted,
                            exceeded, <<>>, NoOutcome, d.trace, d.response)
            /\ pending' = pending

DispatchPost(client, body, ev, view) ==
    AnswerOrBlock(client, body, ev,
                  windows_exceeded(hits, client, "/api/transcript"),
                  full_dispatch(ev, view))

Transcript(client, body, old_flask) ==
    DispatchPost(client, body,
                 evaluate(hits, client, "/api/transcript",
                          active_limits("/api/transcript")),
                 get_transcript(body, old_flask))

\* the transcript library returns or raises for a blocked request
FetchReturn(i, outcome) ==
    LET p == pending[i]
    IN  /\ i \in 1..Len(pending)
        /\ resp' = emit(p.client, "/api/transcript", p.request, p.admitted,
                        p.exceeded, p.video_id, outcome,
                        p.trace \o (IF outcome.ok THEN <<>> ELSE <<"except">>),
                        transcript_response(outcome))
        /\ pending' = [j \in 1..(Len(pending) - 1) |->
                         IF j < i THEN pending[j] ELSE pending[j + 1]]
        /\ UNCHANGED <<hits, load>>

\* a path no route matches: the router raises NotFound, which goes to the
\* error handler; the limiter has nothing to test
Unknown(client) ==
    /\ resp' = emit(client, "/unknown", NoBody, TRUE, {}, <<>>, NoOutcome,
                    <<"handle_error">>, handle_error("404 Not Found"))
    /\ UNCHANGED <<hits, pending, load>>

\* the window of a bucket runs out: the bucket is dropped
Expire(k) ==
    /\ hits[k] > 0
    /\ hits' = [hits EXCEPT ![k] = 0]
    /\ UNCHANGED <<pending, resp, load>>

Next ==
    \/ \E c \in Clients : Home(c)
    \/ \E c \in Clients, now \in Times : Health(c, now)
    \/ \E c \in Clients : Favicon(c)
    \/ \E c \in Clients, b \in Bodies(SampleUrls), old \in BOOLEAN :
         Transcript(c, b, old)
    \/ \E i \in 1..MaxInFlight, o \in Outcomes : FetchReturn(i, o)
    \/ \E c \in Clients : Unknown(c)
    \/ \E k \in Keys : Expire(k)

Spec == Init /\ [][Next]_vars

(***************************************************************************)
(* The resolver on every URL of the bounded set: one POST carrying it.     *)
(***************************************************************************)
InitResolver ==
    /\ hits = [k \in Keys |-> 0]
    /\ pending = <<>>
    /\ resp = NoResponse
    /\ load = [heavy |-> <<"", "">>, other |-> {"/api/transcript"}]

UrlBodies == {b \in Bodies(AllUrls) : b.raw = "{url}"}

NextResolver ==
    \/ load.other # {} /\ \E b \in UrlBodies : Transcript("c2", b, FALSE)
    \/ \E o \in Outcomes : FetchReturn(1, o)

SpecResolver == InitResolver /\ [][NextResolver]_vars

(***************************************************************************)
(* Properties.                                                             *)
(***************************************************************************)
StartsWith(s, pre) == Len(s) >= Len(pre) /\ SubSeq(s, 1, Len(pre)) = pre
EndsWith(s, suf) ==
    Len(s) >= Len(suf) /\ SubSeq(s, Len(s) - Len(suf) + 1, Len(s)) = suf

\* the identifier a URL of the model was built around
IdOf(url) ==
    IF StartsWith(url, ShortPrefix) THEN From(url, Len(ShortPrefix) + 1)
    ELSE IF EndsWith(url, MoreParams)
    THEN SubSeq(url, Len(WatchPrefix) + 1, Len(url) - Len(MoreParams))
    ELSE From(url, Len(WatchPrefix) + 1)

IsPlain(id) == \A i \in 1..Len(id) : id[i] \in PlainChars

\* the URL reads as the claim describes it: the identifier is the whole value
\* of v, resp. the whole last path segment
ReadsAsId(url) ==
    \A i \in 1..Len(IdOf(url)) :
        IdOf(url)[i] \notin (IF StartsWith(url, ShortPrefix)
                             THEN {"/", "?", "#"} ELSE {"&", "#"})

\* the POST that was answered last carried a URL built around an identifier
AnsweredUrl ==
    /\ resp.route = "/api/transcript"
    /\ resp.admitted
    /\ resp.request.raw = "{url}"
    /\ resp.request.url \notin NoIdUrls

HasStep(trace, step) == \E i \in 1..Len(trace) : trace[i] = step

SecurityHeaders ==
    [n \in HeaderNames \ {"Content-Type"} |->
       CASE n = "X-Content-Type-Options" -> "nosniff"
         [] n = "X-Frame-Options" -> "DENY"
         [] n = "X-XSS-Protection" -> "1; mode=block"
         [] OTHER -> "max-age=31536000; includeSubDomains"]

HourItem == default_limits[1]

\* C1 (as stated): an admitted POST /api/transcript whose body is absent,
\* empty, or a JSON object without a url field is answered 400 with the
\* error "URL is required", and neither the resolver nor the fetcher runs.
C1_MissingUrlIs400 ==
    (/\ resp.route = "/api/transcript"
     /\ resp.admitted
     /\ resp.request.raw \in {"absent", "empty", "{}", "{lang}"})
    => /\ resp.status = 400
       /\ resp.body = [error |-> "URL is required"]
       /\ ~HasStep(resp.trace, "urlparse")
       /\ ~HasStep(resp.trace, "fetch")

\* C2 (as stated): for every non-empty identifier ID, the resolver yields
\* exactly ID for a youtube.com URL with v=ID and for a URL of another host
\* whose last path segment is ID, and that value goes to the fetcher.
C2_ResolverExactForEveryId ==
    /\ \A i \in 1..Len(pending) :
         (/\ pending[i].request.url \notin NoIdUrls
          /\ ReadsAsId(pending[i].request.url))
         => pending[i].video_id = IdOf(pending[i].request.url)
    /\ (AnsweredUrl /\ ReadsAsId(resp.request.url))
       => resp.video_id = IdOf(resp.request.url)

\* C2 (amended): for every non-empty identifier made only of characters with
\* no meaning in a URL (letters, digits, "-" and "_"), the resolver yields
\* exactly the identifier for a youtube.com URL with v=ID, with or without
\* further query parameters, and for a URL of another host whose last path
\* segment is ID; that value is the one given to the fetcher.
C2_ResolverExactForPlainId ==
    /\ \A i \in 1..Len(pending) :
         (/\ pending[i].request.url \notin NoIdUrls
          /\ IsPlain(IdOf(pending[i].request.url)))
         => pending[i].video_id = IdOf(pending[i].request.url)
    /\ (AnsweredUrl /\ IsPlain(IdOf(resp.request.url)))
       => /\ resp.video_id = IdOf(resp.request.url)
          /\ FetchCalls(resp.trace) = 1

\* a short URL with the plain identifier x1 is waiting for the library with
\* exactly that identifier
C2_PlainIdResolved ==
    /\ Len(pending) = 1
    /\ pending[1].request.url = ShortUrl(<<"x", "1">>)
    /\ pending[1].video_id = <<"x", "1">>

\* C3 (as stated): a URL from which no identifier can be taken (an empty v=,
\* no query, an empty path, a text that is no URL at all) makes the resolver
\* fail, the fetcher is never called for it and the answer is 500.
C3_NoIdentifierFails ==
    /\ \A i \in 1..Len(pending) : pending[i].request.url \notin NoIdUrls
    /\ (/\ resp.route = "/api/transcript"
        /\ resp.admitted
        /\ resp.request.raw = "{url}"
        /\ resp.request.url \in NoIdUrls)
       => /\ resp.status = 500
          /\ FetchCalls(resp.trace) = 0

\* C4: an admitted POST whose URL resolves calls the fetcher exactly once for
\* the resolved identifier and is answered exactly once: 200 with the
\* sequence the fetcher returned, elements and order unchanged, or 500 with
\* the text of the fetcher's error.
C4_OneFetchOneAnswer ==
    /\ \A i \in 1..Len(pending) :
         /\ pending[i].video_id # <<>>
         /\ get_video_id(pending[i].request.url).video_id
              = pending[i].video_id
         /\ FetchCalls(pending[i].trace) = 1
         /\ ~HasStep(pending[i].trace, "after_request")
    /\ (/\ resp.route = "/api/transcript"
        /\ resp.admitted
        /\ resp.request.raw = "{url}"
        /\ get_video_id(resp.request.url).ok)
       => /\ resp.video_id = get_video_id(resp.request.url).video_id
          /\ FetchCalls(resp.trace) = 1
          /\ Cardinality({i \in 1..Len(resp.trace) :
                            resp.trace[i] = "after_request"}) = 1
          /\ resp.outcome \in Outcomes
          /\ IF resp.outcome.ok
             THEN /\ resp.status = 200
                  /\ resp.body = [transcript |-> resp.outcome.transcript]
             ELSE /\ resp.status = 500
                  /\ resp.body = [error |-> resp.outcome.message]

\* the fetcher returned its segments out of time order and the answer is 200
\* with the segments in that same order
C4_TranscriptReturnedAsIs ==
    /\ resp.route = "/api/transcript"
    /\ resp.status = 200
    /\ FetchCalls(resp.trace) = 1
    /\ resp.body = [transcript |->
                      <<Segment("world", 1), Segment("hello", 0)>>]

\* C5 (as stated): a request to / or to /api/transcript that exceeds the
\* route's own limit (the 11th in a minute, the 101st in an hour) is
\* answered with status 429.
C5_OverLimitIs429 ==
    (/\ resp.route \in {"/", "/api/transcript"}
     /\ decorated_limits(resp.route)[1] \in resp.exceeded)
    => resp.status = 429

\* C6: a request the limiter rejects never runs any step of its view (no
\* body is read, no URL is resolved, no transcript is fetched), and every
\* view step that runs comes after the limiter has admitted the request.
C6_RejectedRunsNoView ==
    /\ \A i \in 1..Len(pending) :
         /\ pending[i].admitted
         /\ pending[i].trace[1] = "limiter"
    /\ (resp.route \in Routes /\ ~resp.admitted)
       => /\ \A i \in 1..Len(resp.trace) : resp.trace[i] \notin ViewSteps
          /\ FetchCalls(resp.trace) = 0
          /\ resp.video_id = <<>>
    /\ (resp.route \in Routes /\ resp.admitted)
       => resp.trace[1] = "limiter"

\* a POST that carries a resolvable URL was rejected by the limiter
C6_UrlPostRejected ==
    /\ resp.route = "/api/transcript"
    /\ ~resp.admitted
    /\ resp.request.raw = "{url}"
    /\ get_video_id(resp.request.url).ok
    /\ resp.trace = <<"limiter", "handle_error", "after_request">>

\* C7 (as stated): on / and /api/transcript the default windows stay active
\* next to the route's own limit: a request that exceeds any of the windows
\* (10/minute or 100/hour, 50/hour, 200/day) is rejected.
C7_AnyWindowRejects ==
    (resp.route \in {"/", "/api/transcript"} /\ resp.exceeded # {})
    => ~resp.admitted

\* C7 (amended): the default windows (50 per hour, 200 per day, per client)
\* are active only on the routes without a limit of their own (/health and
\* /favicon.ico), where a request exceeding either is rejected; on / and on
\* /api/transcript the route's own limit replaces them, and a request is
\* rejected exactly when it exceeds 10 per minute, resp. 100 per hour, and
\* no request to them is counted against a default window.
C7_OwnLimitReplacesDefaults ==
    /\ \A c \in Clients, r \in {"/", "/api/transcript"} :
         \A i \in 1..Len(default_limits) : hits[<<c, r, default_limits[i]>>] = 0
    /\ \A i \in 1..Len(pending) :
         decorated_limits("/api/transcript")[1] \notin pending[i].exceeded
    /\ resp.route \in {"/", "/api/transcript"}
       => (resp.admitted
           <=> decorated_limits(resp.route)[1] \notin resp.exceeded)
    /\ resp.route \in {"/health", "/favicon.ico"}
       => (resp.admitted <=> resp.exceeded = {})

\* a POST beyond the 50th of the hour was admitted and went to its view
C7_PastDefaultHourAdmitted ==
    /\ resp.route = "/api/transcript"
    /\ HourItem \in resp.exceeded
    /\ resp.admitted
    /\ HasStep(resp.trace, "get_json")

\* C8: every response that leaves the server, a success, a client error and
\* a server error alike, carries the four security headers with their
\* fixed values.
C8_SecurityHeadersOnEveryResponse ==
    resp # NoResponse
    => \A n \in DOMAIN SecurityHeaders : resp.headers[n] = SecurityHeaders[n]

\* the error answer to a request the limiter rejected carries the headers
C8_ErrorResponseHasHeaders ==
    /\ resp.status = 500
    /\ ~resp.admitted
    /\ resp.headers["X-Frame-Options"] = "DENY"
    /\ resp.headers["Strict-Transport-Security"]
         = "max-age=31536000; includeSubDomains"

====
